---- MODULE Spec2Model ----
(***************************************************************************)
(* Model of api/index.py, the well time-series query service.              *)
(*                                                                         *)
(*   Spec    the dataset loader and its process-wide cache, called by      *)
(*           concurrent health / stats / timeseries requests (FastAPI runs *)
(*           plain "def" endpoints on a thread pool), with the source file *)
(*           changing underneath.                                          *)
(*   SpecTS  the timeseries handler as a function of the loaded dataset    *)
(*           and the query parameters.                                     *)
(***************************************************************************)
EXTENDS Integers, Sequences, FiniteSets, TLC

\* ------------------------------------------------------------------ bounds
MaxReqs == 3        \* requests served in one run of Spec
MaxMods == 1        \* modifications of the source file in one run of Spec
MaxRecs == 3        \* records in the dataset of SpecTS
MaxLimit == 2       \* largest `limit` parameter tried in SpecTS

\* ---------------------------------------------------------------- loader
Threads == {"t1", "t2"}                       \* worker threads of the pool
Paths == {"primary", "alt"}                   \* ../MData_Cleaned.json, ./MData_Cleaned.json
Kinds == {"health", "stats", "timeseries"}    \* the endpoints that call load_data

\* What a candidate path can hold: no file, a file json.load rejects, or a
\* file holding JSON null, a (non-empty) JSON object, or one of two arrays.
Contents == {"absent", "invalid", "null", "object", "arrayA", "arrayB"}

\* Python's None
None == "None"

\* json.load: the Python value of a parsable content (JSON null is None)
JsonLoad(c) == IF c = "null" THEN None ELSE c

IsArray(d) == d \in {"arrayA", "arrayB"}

VARIABLES
    file,         \* storage: content of each candidate path
    cache,        \* _cached_data
    pc,           \* per thread: position in the request
    kind,         \* per thread: endpoint being served
    json_path,    \* per thread: load_data's local json_path
    parsed,       \* per thread: value json.load returned, not yet stored
    data,         \* per thread: value load_data returned to the handler
    status,       \* per thread: HTTP status of the response (0: none yet)
    err,          \* per thread: which failure ended the request
    parses,       \* history: number of times the file was read and parsed
    fails,        \* history: number of load_data calls that raised
    firstData,    \* history: value returned by the first load_data call that returned
    overlapped,   \* history: two requests were in progress at the same time
    mods,         \* history: number of file modifications
    reqs,         \* history: number of requests started
    dataset,      \* timeseries: the list load_data returned
    query,        \* timeseries: the request's parameters
    filtered,     \* timeseries: the handler's local `filtered`
    resp,         \* timeseries: the response
    tpc           \* timeseries: "idle" before the request, "done" after

lvars == <<file, cache, pc, kind, json_path, parsed, data, status, err,
           parses, fails, firstData, overlapped, mods, reqs>>

tvars == <<dataset, query, filtered, resp, tpc>>

vars == <<lvars, tvars>>

Unset == "unset"

\* At process start the default path holds anything; the fallback path holds
\* nothing or a copy of the dataset (ModifyFile brings about the rest).
LInit ==
    /\ file \in { f \in [Paths -> Contents] : f["alt"] \in {"absent", "arrayA"} }
    /\ cache = None
    /\ pc = [t \in Threads |-> "idle"]
    /\ kind = [t \in Threads |-> "health"]
    /\ json_path = [t \in Threads |-> "primary"]
    /\ parsed = [t \in Threads |-> None]
    /\ data = [t \in Threads |-> None]
    /\ status = [t \in Threads |-> 0]
    /\ err = [t \in Threads |-> "none"]
    /\ parses = 0
    /\ fails = 0
    /\ firstData = Unset
    /\ overlapped = FALSE
    /\ mods = 0
    /\ reqs = 0

\* Spec does not run the timeseries handler's body.
TIdle ==
    /\ dataset = <<>>
    /\ query = <<>>
    /\ filtered = <<>>
    /\ resp = <<>>
    /\ tpc = "off"

Init == LInit /\ TIdle

\* A request arrives on a free worker and calls load_data (lines 108, 132, 199).
Request(t, k) ==
    /\ pc[t] \in {"idle", "done"}
    /\ reqs < MaxReqs
    /\ reqs' = reqs + 1
    /\ pc' = [pc EXCEPT ![t] = "check"]
    /\ kind' = [kind EXCEPT ![t] = k]
    /\ status' = [status EXCEPT ![t] = 0]
    /\ err' = [err EXCEPT ![t] = "none"]
    /\ overlapped' = (overlapped \/ \E u \in Threads \ {t} : pc[u] \notin {"idle", "done"})
    /\ UNCHANGED <<file, cache, json_path, parsed, data, parses, fails, firstData, mods>>
    /\ UNCHANGED tvars

\* load_data, lines 54-55: return the cached data if already loaded.
CheckCache(t) ==
    /\ pc[t] = "check"
    /\ IF cache # None
         THEN /\ data' = [data EXCEPT ![t] = cache]
              /\ firstData' = IF firstData = Unset THEN cache ELSE firstData
              /\ pc' = [pc EXCEPT ![t] = "respond"]
         ELSE /\ pc' = [pc EXCEPT ![t] = "exists1"]
              /\ UNCHANGED <<data, firstData>>
    /\ UNCHANGED <<file, cache, kind, json_path, parsed, status, err,
                   parses, fails, overlapped, mods, reqs>>
    /\ UNCHANGED tvars

\* load_data, lines 58-62: the default path, one directory above api/.
ExistsPrimary(t) ==
    /\ pc[t] = "exists1"
    /\ json_path' = [json_path EXCEPT ![t] = "primary"]
    /\ pc' = [pc EXCEPT ![t] = IF file["primary"] # "absent" THEN "read" ELSE "exists2"]
    /\ UNCHANGED <<file, cache, kind, parsed, data, status, err,
                   parses, fails, firstData, overlapped, mods, reqs>>
    /\ UNCHANGED tvars

\* load_data, lines 63-75: fall back to the file next to index.py, or raise
\* HTTPException(500) naming both paths.
ExistsAlt(t) ==
    /\ pc[t] = "exists2"
    /\ IF file["alt"] # "absent"
         THEN /\ json_path' = [json_path EXCEPT ![t] = "alt"]
              /\ pc' = [pc EXCEPT ![t] = "read"]
              /\ UNCHANGED <<status, err, fails, kind>>
         ELSE /\ pc' = [pc EXCEPT ![t] = "done"]
              /\ status' = [status EXCEPT ![t] = 500]
              /\ err' = [err EXCEPT ![t] = "notfound"]
              /\ fails' = fails + 1
              /\ kind' = [kind EXCEPT ![t] = "health"]
              /\ UNCHANGED json_path
    /\ UNCHANGED <<file, cache, parsed, data, parses, firstData, overlapped, mods, reqs>>
    /\ UNCHANGED tvars

\* ReadFile with the except clause swallowing the error: the failed load is
\* treated as an empty result instead of being raised.
ReadFile_swallow(t) ==
    /\ pc[t] = "read"
    /\ LET c == file[json_path[t]] IN
       /\ parsed' = [parsed EXCEPT ![t] = IF c \in {"absent", "invalid"} THEN None ELSE JsonLoad(c)]
       /\ parses' = IF c \in {"absent", "invalid"} THEN parses ELSE parses + 1
    /\ pc' = [pc EXCEPT ![t] = "store"]
    /\ UNCHANGED <<file, cache, kind, json_path, data, status, err, fails,
                   firstData, overlapped, mods, reqs>>
    /\ UNCHANGED tvars

\* load_data, lines 78-80 and 82-83: open the file and json.load it. Any
\* exception (the file vanished since the existence test, or its content does
\* not parse) becomes HTTPException(500, "Error loading data: ...").
ReadFile(t) ==
    /\ pc[t] = "read"
    /\ LET c == file[json_path[t]] IN
       IF c \in {"absent", "invalid"}
         THEN /\ pc' = [pc EXCEPT ![t] = "done"]
              /\ status' = [status EXCEPT ![t] = 500]
              /\ err' = [err EXCEPT ![t] = "loaderror"]
              /\ fails' = fails + 1
              /\ json_path' = [json_path EXCEPT ![t] = "primary"]
              /\ kind' = [kind EXCEPT ![t] = "health"]
              /\ UNCHANGED <<parsed, parses>>
         ELSE /\ parsed' = [parsed EXCEPT ![t] = JsonLoad(c)]
              /\ parses' = parses + 1
              /\ pc' = [pc EXCEPT ![t] = "store"]
              /\ UNCHANGED <<status, err, fails, json_path, kind>>
    /\ UNCHANGED <<file, cache, data, firstData, overlapped, mods, reqs>>
    /\ UNCHANGED tvars

\* load_data, line 80: the assignment to the global _cached_data.
StoreCache(t) ==
    /\ pc[t] = "store"
    /\ cache' = parsed[t]
    /\ pc' = [pc EXCEPT ![t] = "return"]
    /\ UNCHANGED <<file, kind, json_path, parsed, data, status, err,
                   parses, fails, firstData, overlapped, mods, reqs>>
    /\ UNCHANGED tvars

\* load_data, line 81: return _cached_data (the global is read again); the
\* call's locals end with it.
ReturnCache(t) ==
    /\ pc[t] = "return"
    /\ data' = [data EXCEPT ![t] = cache]
    /\ firstData' = IF firstData = Unset THEN cache ELSE firstData
    /\ pc' = [pc EXCEPT ![t] = "respond"]
    /\ json_path' = [json_path EXCEPT ![t] = "primary"]
    /\ parsed' = [parsed EXCEPT ![t] = None]
    /\ UNCHANGED <<file, cache, kind, status, err,
                   parses, fails, overlapped, mods, reqs>>
    /\ UNCHANGED tvars

\* The handler body after load_data returned (lines 109-121, 134-164,
\* 201-287): it iterates the dataset and calls r.get on each element, so a
\* value that is None or a non-empty JSON object raises, which ends the
\* request with status 500 (health re-raises it as HTTPException(500)).
\* The request's locals end with it.
Respond(t) ==
    /\ pc[t] = "respond"
    /\ pc' = [pc EXCEPT ![t] = "done"]
    /\ status' = [status EXCEPT ![t] = IF IsArray(data[t]) THEN 200 ELSE 500]
    /\ err' = [err EXCEPT ![t] = IF IsArray(data[t]) THEN "none" ELSE "handler"]
    /\ data' = [data EXCEPT ![t] = None]
    /\ kind' = [kind EXCEPT ![t] = "health"]
    /\ UNCHANGED <<file, cache, json_path, parsed,
                   parses, fails, firstData, overlapped, mods, reqs>>
    /\ UNCHANGED tvars

\* The environment replaces, creates or deletes a candidate file while the
\* process runs.
ModifyFile(p, c) ==
    /\ mods < MaxMods
    /\ file[p] # c
    /\ file' = [file EXCEPT ![p] = c]
    /\ mods' = mods + 1
    /\ UNCHANGED <<cache, pc, kind, json_path, parsed, data, status, err,
                   parses, fails, firstData, overlapped, reqs>>
    /\ UNCHANGED tvars

Next ==
    \/ \E t \in Threads, k \in Kinds : Request(t, k)
    \/ \E t \in Threads : CheckCache(t)
    \/ \E t \in Threads : ExistsPrimary(t)
    \/ \E t \in Threads : ExistsAlt(t)
    \/ \E t \in Threads : ReadFile(t)
    \/ \E t \in Threads : StoreCache(t)
    \/ \E t \in Threads : ReturnCache(t)
    \/ \E t \in Threads : Respond(t)
    \/ \E p \in Paths, c \in Contents : ModifyFile(p, c)

Spec == Init /\ [][Next]_vars


\* ----------------------------------------------------- timeseries: values

\* A string is the sequence of its character codes; Python compares strings
\* code point by code point, a proper prefix being smaller.
StrLt(a, b) ==
    LET n == IF Len(a) < Len(b) THEN Len(a) ELSE Len(b)
        d == { i \in 1..n : a[i] # b[i] }
    IN IF d = {} THEN Len(a) < Len(b)
       ELSE LET i == CHOOSE x \in d : \A y \in d : x <= y IN a[i] < b[i]

StrGt(a, b) == StrLt(b, a)

\* s[:n]
Prefix(s, n) == SubSeq(s, 1, IF Len(s) < n THEN Len(s) ELSE n)

Digit(n) == 48 + n

\* "2021-01-0d hh:mm:00"
Stamp(d, h, m) ==
    <<50, 48, 50, 49, 45, 48, 49, 45, 48, Digit(d), 32,
      Digit(h \div 10), Digit(h % 10), 58,
      Digit(m \div 10), Digit(m % 10), 58, 48, 48>>

HourSuffix == <<58, 48, 48, 58, 48, 48>>            \* ":00:00"
DaySuffix == <<32, 48, 48, 58, 48, 48, 58, 48, 48>>  \* " 00:00:00"
HourPrefix == 13
DayPrefix == 10

\* JSON values of the sensor fields: a number, null, or a string.
Num(n) == [kind |-> "num", v |-> n]
Null == [kind |-> "null", v |-> 0]
Str(n) == [kind |-> "str", v |-> n]

\* v is not None and isinstance(v, (int, float))
IsNumeric(x) == x.kind = "num"

\* An optional query parameter: None, or a value.
Nothing(d) == [some |-> FALSE, v |-> d]
Some(x) == [some |-> TRUE, v |-> x]

\* The keys every point leaves out of its values (lines 235 and 264).
Envelope == {"timestamp", "well_id", "class"}

\* r.get("timestamp", "")
TimestampOf(r) == IF "timestamp" \in DOMAIN r THEN r["timestamp"] ELSE <<>>

T1 == Stamp(1, 10, 15)
T2 == Stamp(1, 10, 45)
T3 == Stamp(1, 11, 5)

\* The records datasets are made of. A record is a JSON object: a function
\* from the keys it has to their values. Datasets list them in any order,
\* with repetitions.
RecordSet ==
    { [well_id |-> 1, timestamp |-> T1, class |-> 0, p_pdg |-> Num(10), qgl |-> Num(4)],
      [well_id |-> 1, timestamp |-> T2, class |-> 0, p_pdg |-> Num(21)],
      [well_id |-> 1, timestamp |-> T3, class |-> 1, p_pdg |-> Null, qgl |-> Str(1)],
      [well_id |-> 1, p_pdg |-> Num(7)],
      [well_id |-> 2, timestamp |-> T1, class |-> 0, p_pdg |-> Num(30)] }

Datasets == UNION { [1..n -> RecordSet] : n \in 0..MaxRecs }

Queries ==
    [ well_id : {1, 2},
      start_time : {Nothing(<<>>), Some(<<>>), Some(T2)},
      end_time : {Nothing(<<>>), Some(<<>>), Some(T2)},
      class_id : {Nothing(0), Some(0)},
      aggregation : {"minute", "hour", "day"},
      limit : 1..MaxLimit ]

\* ---------------------------------------------------- timeseries: handler

\* KeepRecord with the class test written `if class_id and ...`: class 0 is
\* taken for "no class_id".
KeepRecord_truthyClass(r, q) ==
    /\ "well_id" \in DOMAIN r /\ r["well_id"] = q.well_id
    /\ ~(q.start_time.some /\ q.start_time.v # <<>> /\ StrLt(TimestampOf(r), q.start_time.v))
    /\ ~(q.end_time.some /\ q.end_time.v # <<>> /\ StrGt(TimestampOf(r), q.end_time.v))
    /\ ~(q.class_id.some /\ q.class_id.v # 0 /\ ~("class" \in DOMAIN r /\ r["class"] = q.class_id.v))

\* Lines 204-216: the tests a record passes to enter `filtered`.
KeepRecord(r, q) ==
    /\ "well_id" \in DOMAIN r /\ r["well_id"] = q.well_id
    /\ ~(q.start_time.some /\ q.start_time.v # <<>> /\ StrLt(TimestampOf(r), q.start_time.v))
    /\ ~(q.end_time.some /\ q.end_time.v # <<>> /\ StrGt(TimestampOf(r), q.end_time.v))
    /\ ~(q.class_id.some /\ ~("class" \in DOMAIN r /\ r["class"] = q.class_id.v))

\* Lines 202-218.
Filtered(ds, q) == SelectSeq(ds, LAMBDA r : KeepRecord(r, q))

\* filtered[:limit]
FirstN(f, n) == SubSeq(f, 1, IF Len(f) < n THEN Len(f) ELSE n)

\* Line 235: the record without timestamp, well_id and class.
ValuesOf(r) == [k \in DOMAIN r \ Envelope |-> r[k]]

\* Lines 233-239.
MinutePoints(f, limit) ==
    [i \in 1..Len(FirstN(f, limit)) |->
        [timestamp |-> f[i]["timestamp"], values |-> ValuesOf(f[i])]]

\* Lines 247-252.
BucketKey(ts, agg) ==
    IF agg = "hour" THEN Prefix(ts, HourPrefix) \o HourSuffix
    ELSE IF agg = "day" THEN Prefix(ts, DayPrefix) \o DaySuffix
    ELSE ts

\* Lines 242-254: the keys of `groups`.
GroupKeys(f, agg) == { BucketKey(TimestampOf(f[i]), agg) : i \in 1..Len(f) }

\* Rows with `groups[key] = [r]` in place of append: a bucket keeps only the
\* last of its records.
Rows_last(f, agg, key) ==
    LET all == SelectSeq(f, LAMBDA r : BucketKey(TimestampOf(r), agg) = key)
    IN IF all = <<>> THEN <<>> ELSE <<all[Len(all)]>>

\* groups[key]
Rows(f, agg, key) == SelectSeq(f, LAMBDA r : BucketKey(TimestampOf(r), agg) = key)

\* sorted(groups.keys())
RECURSIVE Sorted(_)
Sorted(S) ==
    IF S = {} THEN <<>>
    ELSE LET m == CHOOSE x \in S : \A y \in S \ {x} : StrLt(x, y)
         IN <<m>> \o Sorted(S \ {m})

\* Lines 261-267: sensor_vals[k], the numeric values of field k in the rows.
RECURSIVE SensorVals(_, _)
SensorVals(rows, k) ==
    IF rows = <<>> THEN <<>>
    ELSE LET r == Head(rows)
         IN (IF k \in DOMAIN r /\ k \notin Envelope /\ IsNumeric(r[k])
               THEN <<r[k].v>> ELSE <<>>) \o SensorVals(Tail(rows), k)

RECURSIVE Sum(_)
Sum(xs) == IF xs = <<>> THEN 0 ELSE Head(xs) + Sum(Tail(xs))

\* round(sum(v) / len(v), 2), as a number of hundredths. With integer inputs
\* the quotient lies exactly between two hundredths only when len(v) is a
\* multiple of 16, so the tie rule of round() never applies here.
Mean2(xs) == (200 * Sum(xs) + Len(xs)) \div (2 * Len(xs))

\* Aggregated with the sum divided by the number of rows of the bucket
\* instead of the number of values that were summed.
Aggregated_byRows(rows) ==
    LET keys == { k \in UNION { DOMAIN rows[i] : i \in 1..Len(rows) } :
                    SensorVals(rows, k) # <<>> }
    IN [k \in keys |-> (200 * Sum(SensorVals(rows, k)) + Len(rows)) \div (2 * Len(rows))]

\* Lines 269-273.
Aggregated(rows) ==
    LET keys == { k \in UNION { DOMAIN rows[i] : i \in 1..Len(rows) } :
                    SensorVals(rows, k) # <<>> }
    IN [k \in keys |-> Mean2(SensorVals(rows, k))]

\* The keys in the order the dict holds them (first appearance), sorted()
\* forgotten.
RECURSIVE InsertionOrder(_, _)
InsertionOrder(f, agg) ==
    IF f = <<>> THEN <<>>
    ELSE LET k == BucketKey(TimestampOf(Head(f)), agg)
         IN <<k>> \o SelectSeq(InsertionOrder(Tail(f), agg), LAMBDA x : x # k)

ReturnedKeys_unsorted(f, agg, limit) == FirstN(InsertionOrder(f, agg), limit)

\* Line 258: sorted(groups.keys())[:limit]
ReturnedKeys(f, agg, limit) == FirstN(Sorted(GroupKeys(f, agg)), limit)

\* Lines 257-279.
AggPoints(f, agg, limit) ==
    LET keys == ReturnedKeys(f, agg, limit)
    IN [i \in 1..Len(keys) |->
          [timestamp |-> keys[i],
           values |-> Aggregated(Rows(f, agg, keys[i])),
           sample_count |-> Len(Rows(f, agg, keys[i]))]]

\* Response with total_filtered taken after the truncation to `limit`.
Response_truncated(q, f, points) ==
    [status |-> 200, well_id |-> q.well_id, aggregation |-> q.aggregation,
     count |-> Len(points), total_filtered |-> Len(points), points |-> points]

\* Lines 281-287.
Response(q, f, points) ==
    [status |-> 200, well_id |-> q.well_id, aggregation |-> q.aggregation,
     count |-> Len(points), total_filtered |-> Len(f), points |-> points]

\* An exception escaping the handler: the framework answers 500.
ServerError(q) ==
    [status |-> 500, well_id |-> q.well_id, aggregation |-> q.aggregation,
     count |-> 0, total_filtered |-> 0, points |-> <<>>]

\* No response yet.
NoResponse == [status |-> 0]

\* Lines 221-228: nothing passed the filter.
TsEmpty(q) ==
    /\ tpc = "idle"
    /\ Filtered(dataset, q) = <<>>
    /\ query' = q
    /\ filtered' = <<>>
    /\ resp' = Response(q, <<>>, <<>>)
    /\ tpc' = "done"
    /\ UNCHANGED <<dataset, lvars>>

\* Lines 231-239 and 281-287: r["timestamp"] raises KeyError on a record
\* that has no timestamp.
TsMinute(q) ==
    /\ tpc = "idle"
    /\ q.aggregation = "minute"
    /\ LET f == Filtered(dataset, q) IN
       /\ f # <<>>
       /\ filtered' = f
       /\ resp' = IF \E i \in 1..Len(FirstN(f, q.limit)) : "timestamp" \notin DOMAIN f[i]
                    THEN ServerError(q)
                    ELSE Response(q, f, MinutePoints(f, q.limit))
    /\ query' = q
    /\ tpc' = "done"
    /\ UNCHANGED <<dataset, lvars>>

\* Lines 240-287.
TsAggregate(q) ==
    /\ tpc = "idle"
    /\ q.aggregation # "minute"
    /\ LET f == Filtered(dataset, q) IN
       /\ f # <<>>
       /\ filtered' = f
       /\ resp' = Response(q, f, AggPoints(f, q.aggregation, q.limit))
    /\ query' = q
    /\ tpc' = "done"
    /\ UNCHANGED <<dataset, lvars>>

TInit ==
    /\ dataset \in Datasets
    /\ tpc = "idle"
    /\ query = CHOOSE q \in Queries : TRUE
    /\ filtered = <<>>
    /\ resp = NoResponse

\* The loader at rest, the dataset already in the cache.
LLoaded ==
    /\ file = [p \in Paths |-> "arrayA"]
    /\ cache = "arrayA"
    /\ pc = [t \in Threads |-> "idle"]
    /\ kind = [t \in Threads |-> "health"]
    /\ json_path = [t \in Threads |-> "primary"]
    /\ parsed = [t \in Threads |-> None]
    /\ data = [t \in Threads |-> None]
    /\ status = [t \in Threads |-> 0]
    /\ err = [t \in Threads |-> "none"]
    /\ parses = 1
    /\ fails = 0
    /\ firstData = "arrayA"
    /\ overlapped = FALSE
    /\ mods = 0
    /\ reqs = 0

InitTS == LLoaded /\ TInit

NextTS ==
    \/ \E q \in Queries : TsEmpty(q)
    \/ \E q \in Queries : TsMinute(q)
    \/ \E q \in Queries : TsAggregate(q)

SpecTS == InitTS /\ [][NextTS]_vars


\* ------------------------------------------------------- claims on the loader

\* C1 (as stated): in a run whose requests do not overlap, the source file is
\* read (opened and decoded) at most once, and every load_data call that
\* returns hands back the same dataset as the first call that returned.
C1_ReadAtMostOnce ==
    ~overlapped =>
        /\ parses <= 1
        /\ \A t \in Threads : pc[t] = "respond" => data[t] = firstData

\* C2 (as stated, for a slot that holds a dataset): once the cache slot is
\* populated its content never changes, under any interleaving of requests and
\* any modification of the source file: no step replaces the dataset in the
\* slot by a different dataset.
C2_CacheNeverChanges == [][(IsArray(cache) /\ IsArray(cache')) => cache' = cache]_vars

\* C3: a load_data call that fails (no file at either path, or a file that
\* cannot be opened or decoded) ends the request with status 500 and does not
\* write the cache slot, which stays unset as long as no load has decoded the
\* file; a later call that finds the slot unset attempts the load again, a
\* load that reads an array stores it, and a request handed an array is
\* answered with 200.
C3_Step ==
    \A t \in Threads :
        /\ (pc[t] = "exists2" /\ pc'[t] # "exists2" /\ file["alt"] = "absent")
              => (status'[t] = 500 /\ pc'[t] = "done" /\ cache' = cache)
        /\ (pc[t] = "read" /\ pc'[t] # "read" /\ file[json_path[t]] \in {"absent", "invalid"})
              => (status'[t] = 500 /\ pc'[t] = "done" /\ cache' = cache)
        /\ (pc[t] = "check" /\ pc'[t] # "check" /\ cache = None)
              => pc'[t] = "exists1"
        /\ (pc[t] = "read" /\ pc'[t] # "read" /\ IsArray(file[json_path[t]]))
              => (pc'[t] = "store" /\ parsed'[t] = file[json_path[t]])
        /\ (pc[t] = "store" /\ pc'[t] # "store")
              => cache' = parsed[t]
        /\ (pc[t] = "respond" /\ pc'[t] # "respond" /\ IsArray(data[t]))
              => status'[t] = 200

C3_FailedLoadRetries == [](parses = 0 => cache = None) /\ [][C3_Step]_vars

\* C3 witness: a load failed, the file then became loadable, and a later
\* request (no two overlapped) loaded it and was answered with 200.
C3_Witness ==
    /\ fails >= 1
    /\ ~overlapped
    /\ mods >= 1
    /\ IsArray(cache)
    /\ \E t \in Threads : pc[t] = "done" /\ status[t] = 200

\* C4 (as stated): load_data only ever caches and returns a JSON array.
C4_OnlyArrays ==
    /\ cache = None \/ IsArray(cache)
    /\ \A t \in Threads : pc[t] = "respond" => IsArray(data[t])


\* --------------------------------------------- claims on the timeseries handler

Done == tpc = "done"
Answered == Done /\ resp.status = 200
Min(a, b) == IF a < b THEN a ELSE b

\* The i-th (from 1) smallest element of a set of indices.
Nth(I, k) == CHOOSE i \in I : Cardinality({ j \in I : j <= i }) = k

\* seq is exactly the elements of ds at the indices I, in the order of ds.
IsSelection(seq, ds, I) ==
    /\ Len(seq) = Cardinality(I)
    /\ \A k \in 1..Len(seq) : seq[k] = ds[Nth(I, k)]

WellMatches(r, q) == "well_id" \in DOMAIN r /\ r["well_id"] = q.well_id
ClassMatches(r, q) == q.class_id.some => ("class" \in DOMAIN r /\ r["class"] = q.class_id.v)

\* C5 (as stated): a record is in the filtered set iff its well_id matches,
\* its timestamp is >= start_time when start_time is supplied and <= end_time
\* when end_time is supplied, and its class matches class_id when supplied;
\* the filtered records keep their order.
C5_KeepAsStated(r, q) ==
    /\ WellMatches(r, q)
    /\ q.start_time.some => ~StrLt(TimestampOf(r), q.start_time.v)
    /\ q.end_time.some => ~StrGt(TimestampOf(r), q.end_time.v)
    /\ ClassMatches(r, q)

C5_FilterAsStated ==
    Done => IsSelection(filtered, dataset,
                        { i \in 1..Len(dataset) : C5_KeepAsStated(dataset[i], query) })

\* C5 (amended): as C5, the end_time test applying only when end_time is
\* supplied and is not the empty string: an empty end_time filters nothing.
C5_KeepAmended(r, q) ==
    /\ WellMatches(r, q)
    /\ q.start_time.some => ~StrLt(TimestampOf(r), q.start_time.v)
    /\ (q.end_time.some /\ Len(q.end_time.v) > 0) => ~StrGt(TimestampOf(r), q.end_time.v)
    /\ ClassMatches(r, q)

C5_FilterAmended ==
    Done => IsSelection(filtered, dataset,
                        { i \in 1..Len(dataset) : C5_KeepAmended(dataset[i], query) })

\* C5 witness: an empty end_time and a class_id were supplied, and the
\* filter kept some records of the dataset and dropped others.
C5_Witness ==
    /\ Done
    /\ query.end_time = Some(<<>>)
    /\ query.class_id.some
    /\ Len(filtered) >= 2
    /\ Len(filtered) < Len(dataset)

\* The distinct bucket keys of the filtered records, as the claims word them:
\* the first 13 characters of the timestamp and ":00:00" in hour mode, the
\* first 10 and " 00:00:00" in day mode.
ClaimKey(r, agg) ==
    LET ts == TimestampOf(r)
    IN IF agg = "hour"
         THEN [i \in 1..Min(Len(ts), 13) |-> ts[i]] \o <<58, 48, 48, 58, 48, 48>>
         ELSE [i \in 1..Min(Len(ts), 10) |-> ts[i]] \o <<32, 48, 48, 58, 48, 48, 58, 48, 48>>

ClaimKeys == { ClaimKey(filtered[i], query.aggregation) : i \in 1..Len(filtered) }

\* The indices of the filtered records that fall in the bucket of key ts.
Bucket(ts) == { i \in 1..Len(filtered) : ClaimKey(filtered[i], query.aggregation) = ts }

\* C6: in every successful response total_filtered is the number of records
\* that passed the filter and count the number of points returned, which is
\* min(limit, filtered records) in minute mode and min(limit, distinct bucket
\* keys) in hour/day mode; so count <= limit and count <= total_filtered.
C6_Counts ==
    Answered =>
        /\ resp.total_filtered = Len(filtered)
        /\ resp.count = Len(resp.points)
        /\ resp.count = IF query.aggregation = "minute"
                          THEN Min(query.limit, Len(filtered))
                          ELSE Min(query.limit, Cardinality(ClaimKeys))
        /\ resp.count <= query.limit
        /\ resp.count <= resp.total_filtered

\* C6 witness: an hour response whose buckets were cut by the limit, so
\* that count is smaller than total_filtered.
C6_Witness ==
    /\ Answered
    /\ query.aggregation = "hour"
    /\ Cardinality(ClaimKeys) > query.limit
    /\ resp.count < resp.total_filtered

\* C7 (as stated): in minute mode, for every non-empty filtered set, the
\* points are the first min(limit, n) filtered records in filtered order, each
\* with the record's timestamp and all its fields but timestamp, well_id and
\* class, values passed through unchanged.
C7_MinutePassThrough ==
    (Done /\ query.aggregation = "minute" /\ filtered # <<>>) =>
        /\ resp.status = 200
        /\ Len(resp.points) = Min(query.limit, Len(filtered))
        /\ \A i \in 1..Len(resp.points) :
              /\ resp.points[i].timestamp = TimestampOf(filtered[i])
              /\ DOMAIN resp.points[i].values
                    = DOMAIN filtered[i] \ {"timestamp", "well_id", "class"}
              /\ \A k \in DOMAIN resp.points[i].values :
                    resp.points[i].values[k] = filtered[i][k]

\* The sum of field k over the records of filtered at the indices I.
RECURSIVE SumField(_, _)
SumField(I, k) ==
    IF I = {} THEN 0
    ELSE LET i == CHOOSE x \in I : TRUE
         IN filtered[i][k].v + SumField(I \ {i}, k)

C9_SmallestKeysAscending ==
    (Answered /\ query.aggregation # "minute") =>
        LET ret == { resp.points[p].timestamp : p \in 1..Len(resp.points) }
        IN /\ \A p \in 1..(Len(resp.points) - 1) :
                 StrLt(resp.points[p].timestamp, resp.points[p + 1].timestamp)
           /\ ret \subseteq ClaimKeys
           /\ Cardinality(ret) = Min(query.limit, Cardinality(ClaimKeys))
           /\ \A a \in ret : \A b \in ClaimKeys \ ret : StrLt(a, b)

\* C9 witness: two buckets are returned, a third is cut by the limit, and
\* the first filtered record is not in the first returned bucket.
C9_Witness ==
    /\ Answered
    /\ query.aggregation = "hour"
    /\ Len(resp.points) = 2
    /\ Cardinality(ClaimKeys) > 2
    /\ ClaimKey(filtered[1], "hour") # resp.points[1].timestamp

RECURSIVE SumCounts(_)
SumCounts(points) ==
    IF points = <<>> THEN 0 ELSE Head(points).sample_count + SumCounts(Tail(points))

\* C10: in hour/day mode the sample_count values of the returned points add
\* up to at most total_filtered, to exactly total_filtered when no bucket is
\* cut by the limit, and each is at least 1.
C10_SampleCounts ==
    (Answered /\ query.aggregation # "minute") =>
        /\ SumCounts(resp.points) <= resp.total_filtered
        /\ Cardinality(ClaimKeys) <= query.limit
              => SumCounts(resp.points) = resp.total_filtered
        /\ \A p \in 1..Len(resp.points) : resp.points[p].sample_count >= 1

\* C10 witness: all buckets are returned, one of them holding two records.
C10_Witness ==
    /\ Answered
    /\ query.aggregation = "day"
    /\ Len(resp.points) = 2
    /\ Cardinality(ClaimKeys) = 2
    /\ resp.total_filtered = 3

====
